---- MODULE Spec2Model ----
(***************************************************************************)
(* The two Intcode virtual machines of advent2019-rust:                    *)
(*   - IntCodeProgram (src/bin/02.rs): in-place step / run, 130 registers; *)
(*   - Memory (src/intcode/mod.rs): copy-and-return run, 200 registers.    *)
(* Both are driven from the same program so that they can be compared.     *)
(***************************************************************************)
EXTENDS Integers, Sequences, FiniteSets, TLC

\* ------------------------------------------------------------ constants

\* const INTCODE_MEMORY_SIZE: usize = 130 (bin/02.rs)
INTCODE_MEMORY_SIZE == 130

\* const MEMORY_SIZE: usize = 200 (intcode/mod.rs)
MEMORY_SIZE == 200

\* Width of usize in the model. The real width is 64 bits; the model keeps
\* the arithmetic modulo 2^UsizeBits so that overflow is reachable.
UsizeBits == 13

UsizeMax == 2 ^ UsizeBits - 1

\* Longest program text (in characters) handed to from_str.
MaxText == 4

\* Width of u32 in the model (the real width is 32 bits, half of usize's).
U32Bits == 10

U32Max == 2 ^ U32Bits - 1

\* Number of data fields that follow the first instruction of a short program.
TailLen == 1

\* Largest module mass of the contiguous range handed to the fuel functions.
MaxMass == 120

VARIABLES
    input,           \* the program text handed to from_str / part_one
    parsed,          \* IntCodeProgram::from_str: "none" (not called), "ok", "err", "panic"
    vparsed,         \* Memory::from_str: "none", "ok", "err", "panic"
    answer,          \* what part_one(input) returned
    answer2,         \* what part_two(input) returned
    overflow_checks, \* build profile: TRUE = overflow panics (dev), FALSE = wraps (release)
    program,         \* the fields the machines were constructed from (ghost)
    registers,       \* IntCodeProgram.registers
    position,        \* IntCodeProgram.position
    terminated,      \* IntCodeProgram.terminated
    panicked,        \* the thread owning the IntCodeProgram has panicked
    cause,           \* why it panicked (ghost)
    executed,        \* Add/Multiply instructions executed by the IntCodeProgram (ghost)
    receiver,        \* Memory::run: the receiver, *self
    mem,             \* Memory::run: local mem
    pos,             \* Memory::run: local pos
    vpc,             \* Memory::run: "loop", "returned" or "panicked"
    vcause,          \* why Memory::run panicked (ghost)
    vexecuted,       \* instructions executed by Memory::run (ghost)
    after,           \* `let after = mem + instruction`: the instruction and the sum
    mass,            \* the module mass handed to the fuel functions (bin/01.rs)
    fuel,            \* what required_fuel(mass) returned
    fuel_recursive,  \* what required_fuel_recursive(mass) returned
    last             \* the VM operation that acted last (ghost): "init", "step",
                     \* "step after halt" (a step of a terminated program),
                     \* "run" or "Memory_run"

parseVars == <<input, parsed, vparsed, answer, answer2>>

progVars == <<registers, position, terminated, panicked, cause, executed>>

memVars == <<receiver, mem, pos, vpc, vcause, vexecuted, after>>

day1Vars == <<mass, fuel, fuel_recursive>>

vars == <<parseVars, overflow_checks, program, progVars, memVars, last, day1Vars>>

\* ------------------------------------------------------------ usize arithmetic

Ok(v) == [panic |-> FALSE, value |-> v]

Panic == [panic |-> TRUE, value |-> 0]

\* usize `+`: panics on overflow when overflow checks are on, wraps otherwise.
usize_add(x, y) ==
    IF x + y <= UsizeMax THEN Ok(x + y)
    ELSE IF overflow_checks THEN Panic
    ELSE Ok((x + y) % (UsizeMax + 1))

\* usize `*`: likewise.
usize_mul(x, y) ==
    IF x * y <= UsizeMax THEN Ok(x * y)
    ELSE IF overflow_checks THEN Panic
    ELSE Ok((x * y) % (UsizeMax + 1))

\* ------------------------------------------------------------ register arrays

\* A register array [usize; N] is the sequence of its N values: the register
\* of address (index) i is the (i + 1)-th element.
Zeros(size) == [i \in 1..size |-> 0]

InBounds(regs, i) == i < Len(regs)

At(regs, i) == regs[i + 1]

\* Mutant: the store also clears the register after the one it writes.
Store_and_clear_next(regs, i, value) ==
    IF i + 2 <= Len(regs)
    THEN [regs EXCEPT ![i + 1] = value, ![i + 2] = 0]
    ELSE [regs EXCEPT ![i + 1] = value]

Store(regs, i, value) == [regs EXCEPT ![i + 1] = value]

\* ------------------------------------------------------------ instructions

Add(a, b, d) == [op |-> "Add", a |-> a, b |-> b, d |-> d]

Multiply(a, b, d) == [op |-> "Multiply", a |-> a, b |-> b, d |-> d]

Halt == [op |-> "Halt", a |-> 0, b |-> 0, d |-> 0]

Some(x) == [some |-> TRUE, value |-> x]

None == [some |-> FALSE, value |-> 0]

\* ------------------------------------------------------------ bin/02.rs

\* Mutant: a Halt has an output position too (its unused operand, 0).
get_output_position_of_any(instruction) == Some(instruction.d)

get_output_position(instruction) ==
    IF instruction.op \in {"Add", "Multiply"} THEN Some(instruction.d) ELSE None

read_register(regs, p) ==
    IF p >= INTCODE_MEMORY_SIZE THEN 0 ELSE At(regs, p)

\* Mutant: the value depends on state outside the program's memory (the
\* cursor of the other machine).
get_output_value_hidden(instruction, regs) ==
    CASE instruction.op = "Add" ->
            usize_add(read_register(regs, instruction.a) + (pos % 8),
                      read_register(regs, instruction.b))
      [] instruction.op = "Multiply" ->
            usize_mul(read_register(regs, instruction.a) + (pos % 8),
                      read_register(regs, instruction.b))
      [] OTHER -> Ok(0)

get_output_value(instruction, regs) ==
    CASE instruction.op = "Add" ->
            usize_add(read_register(regs, instruction.a), read_register(regs, instruction.b))
      [] instruction.op = "Multiply" ->
            usize_mul(read_register(regs, instruction.a), read_register(regs, instruction.b))
      [] OTHER -> Ok(0)

\* Mutant: the position advances past a Halt as well.
get_position_change_always(instruction) == 4

get_position_change(instruction) ==
    IF instruction.op = "Halt" THEN 0 ELSE 4

read_instruction(regs, p) ==
    CASE read_register(regs, p) = 1 ->
            Add(read_register(regs, p + 1), read_register(regs, p + 2),
                read_register(regs, p + 3))
      [] read_register(regs, p) = 2 ->
            Multiply(read_register(regs, p + 1), read_register(regs, p + 2),
                     read_register(regs, p + 3))
      [] OTHER -> Halt

\* IntCodeProgram::new
new ==
    [registers |-> Store(Zeros(INTCODE_MEMORY_SIZE), 0, 99),
     position |-> 0, terminated |-> FALSE, panicked |-> FALSE,
     cause |-> "none", executed |-> 0]

\* Mutant: the instruction is decoded from the program as it was loaded, not
\* from the registers as the earlier instructions left them.
step_stale(p) ==
    LET loaded == [i \in 1..INTCODE_MEMORY_SIZE |->
                      IF i <= Len(program) THEN program[i] ELSE 0]
        instruction == read_instruction(loaded, p.position)
        out == get_output_position(instruction)
        val == get_output_value(instruction, p.registers)
    IN  IF out.some /\ val.panic
        THEN [p EXCEPT !.panicked = TRUE, !.cause = "overflow"]
        ELSE IF out.some /\ out.value >= INTCODE_MEMORY_SIZE
        THEN [p EXCEPT !.panicked = TRUE, !.cause = "index"]
        ELSE [registers |-> IF out.some
                            THEN Store(p.registers, out.value, val.value)
                            ELSE p.registers,
              position |-> p.position + get_position_change(instruction),
              terminated |-> IF instruction.op = "Halt" THEN TRUE ELSE p.terminated,
              panicked |-> FALSE,
              cause |-> "none",
              executed |-> IF out.some THEN p.executed + 1 ELSE p.executed]

\* IntCodeProgram::step on the program p. The right-hand side of the
\* assignment is evaluated before the index of the left-hand side is checked.
\* Mutant: a destination beyond the capacity wraps around to an address
\* within it.
step_wrapping_store(p) ==
    LET instruction == read_instruction(p.registers, p.position)
        out == get_output_position(instruction)
        val == get_output_value(instruction, p.registers)
    IN  IF out.some /\ val.panic
        THEN [p EXCEPT !.panicked = TRUE, !.cause = "overflow"]
        ELSE [registers |-> IF out.some
                            THEN Store(p.registers, out.value % INTCODE_MEMORY_SIZE,
                                       val.value)
                            ELSE p.registers,
              position |-> p.position + get_position_change(instruction),
              terminated |-> IF instruction.op = "Halt" THEN TRUE ELSE p.terminated,
              panicked |-> FALSE,
              cause |-> "none",
              executed |-> IF out.some THEN p.executed + 1 ELSE p.executed]

step(p) ==
    LET instruction == read_instruction(p.registers, p.position)
        out == get_output_position(instruction)
        val == get_output_value(instruction, p.registers)
    IN  IF out.some /\ val.panic
        THEN [p EXCEPT !.panicked = TRUE, !.cause = "overflow"]
        ELSE IF out.some /\ out.value >= INTCODE_MEMORY_SIZE
        THEN [p EXCEPT !.panicked = TRUE, !.cause = "index"]
        ELSE [registers |-> IF out.some
                            THEN Store(p.registers, out.value, val.value)
                            ELSE p.registers,
              position |-> p.position + get_position_change(instruction),
              terminated |-> IF instruction.op = "Halt" THEN TRUE ELSE p.terminated,
              panicked |-> FALSE,
              cause |-> "none",
              executed |-> IF out.some THEN p.executed + 1 ELSE p.executed]

\* IntCodeProgram::run: while !self.terminated { self.step() }
RECURSIVE run(_)
run(p) ==
    IF p.terminated \/ p.panicked THEN p ELSE run(step(p))

\* ------------------------------------------------------------ intcode/mod.rs

get_output_register(instruction) ==
    IF instruction.op \in {"Add", "Multiply"} THEN Some(instruction.d) ELSE None

\* Memory::read_register: the guard is `pos > MEMORY_SIZE`, so pos = MEMORY_SIZE
\* indexes the array out of bounds and panics.
Memory_read_register(m, p) ==
    IF p > MEMORY_SIZE THEN Ok(0)
    ELSE IF InBounds(m, p) THEN Ok(At(m, p))
    ELSE Panic

\* Instruction::get_output_value(&Memory)
Memory_get_output_value(instruction, m) ==
    LET x == Memory_read_register(m, instruction.a)
        y == Memory_read_register(m, instruction.b)
    IN  CASE instruction.op = "Add" ->
                IF x.panic \/ y.panic THEN Panic ELSE usize_add(x.value, y.value)
          [] instruction.op = "Multiply" ->
                IF x.panic \/ y.panic THEN Panic ELSE usize_mul(x.value, y.value)
          [] OTHER -> Ok(0)

\* Mutant: the cursor moves on by one register.
get_register_change_one(instruction) == 1

get_register_change(instruction) ==
    IF instruction.op \in {"Add", "Multiply"} THEN 4 ELSE 0

\* Memory::read_instruction: [panic, value], value the decoded instruction.
Memory_read_instruction(m, p) ==
    LET opcode == Memory_read_register(m, p)
        x == Memory_read_register(m, p + 1)
        y == Memory_read_register(m, p + 2)
        z == Memory_read_register(m, p + 3)
    IN  IF opcode.panic THEN [panic |-> TRUE, value |-> Halt]
        ELSE IF opcode.value \in {1, 2}
        THEN IF x.panic \/ y.panic \/ z.panic THEN [panic |-> TRUE, value |-> Halt]
             ELSE [panic |-> FALSE,
                   value |-> IF opcode.value = 1
                             THEN Add(x.value, y.value, z.value)
                             ELSE Multiply(x.value, y.value, z.value)]
        ELSE [panic |-> FALSE, value |-> Halt]

\* impl Add<Instruction> for Memory: [panic, value, cause], value the new Memory.
Memory_add(m, rhs) ==
    LET register == get_output_register(rhs)
        val == Memory_get_output_value(rhs, m)
    IN  IF ~register.some THEN [panic |-> FALSE, value |-> m, cause |-> "none"]
        ELSE IF val.panic
        THEN [panic |-> TRUE, value |-> m,
              cause |-> IF Memory_read_register(m, rhs.a).panic
                           \/ Memory_read_register(m, rhs.b).panic
                        THEN "read" ELSE "overflow"]
        ELSE IF register.value >= MEMORY_SIZE
        THEN [panic |-> TRUE, value |-> m, cause |-> "index"]
        ELSE [panic |-> FALSE, value |-> Store(m, register.value, val.value),
              cause |-> "none"]

\* Mutant: the sum is computed in the left operand itself.
Memory_add_in_place(m, rhs) == Memory_add(m, rhs).value

\* What the caller's `mem` holds after `mem + rhs`: add takes self by value,
\* Memory is Copy, and `let mut registers = self.0` copies the array again.
Memory_add_self(m, rhs) == m

\* One iteration of the loop of Memory::run on its locals v = [mem, pos, ...].
Memory_run_body(v) ==
    LET instruction == Memory_read_instruction(v.mem, v.pos)
        sum == Memory_add(v.mem, instruction.value)
    IN  IF instruction.panic
        THEN [v EXCEPT !.pc = "panicked", !.cause = "decode"]
        ELSE IF instruction.value.op = "Halt"
        THEN [v EXCEPT !.pc = "returned"]
        ELSE IF sum.panic
        THEN [v EXCEPT !.pos = v.pos + get_register_change(instruction.value),
                       !.pc = "panicked", !.cause = sum.cause]
        ELSE [mem |-> sum.value,
              pos |-> v.pos + get_register_change(instruction.value),
              pc |-> "loop", cause |-> "none", executed |-> v.executed + 1]

\* Memory::run: the whole loop, from `let mut mem = *self; let mut pos = 0`.
RECURSIVE Memory_run_loop(_)
Memory_run_loop(v) ==
    IF v.pc # "loop" THEN v ELSE Memory_run_loop(Memory_run_body(v))

Memory_run(m) ==
    Memory_run_loop([mem |-> m, pos |-> 0, pc |-> "loop", cause |-> "none",
                     executed |-> 0])

\* ------------------------------------------------------------ parsing

Digits == <<"0", "1", "2", "3", "4", "5", "6", "7", "8", "9">>

IsDigit(c) == \E i \in 1..10 : Digits[i] = c

\* char::to_digit(10)
to_digit(c) == (CHOOSE i \in 1..10 : Digits[i] = c) - 1

\* str::trim_start, str::trim_end, str::trim
RECURSIVE trim_start(_)
trim_start(s) ==
    IF s # <<>> /\ Head(s) = " " THEN trim_start(Tail(s)) ELSE s

RECURSIVE trim_end(_)
trim_end(s) ==
    IF s # <<>> /\ s[Len(s)] = " " THEN trim_end(SubSeq(s, 1, Len(s) - 1)) ELSE s

trim(s) == trim_end(trim_start(s))

\* str::split(','): the fields, left to right; cur is the field being read.
RECURSIVE split_from(_, _)
split_from(s, cur) ==
    IF s = <<>> THEN <<cur>>
    ELSE IF Head(s) = "," THEN <<cur>> \o split_from(Tail(s), <<>>)
    ELSE split_from(Tail(s), Append(cur, Head(s)))

split(s) == split_from(s, <<>>)

\* The digit loop of usize::from_str: checked_mul(10), then checked_add(digit).
RECURSIVE parse_digits(_, _)
parse_digits(ds, acc) ==
    IF ds = <<>> THEN [ok |-> TRUE, value |-> acc]
    ELSE IF ~IsDigit(Head(ds)) THEN [ok |-> FALSE, value |-> 0]
    ELSE IF acc * 10 > UsizeMax THEN [ok |-> FALSE, value |-> 0]
    ELSE IF acc * 10 + to_digit(Head(ds)) > UsizeMax THEN [ok |-> FALSE, value |-> 0]
    ELSE parse_digits(Tail(ds), acc * 10 + to_digit(Head(ds)))

\* Mutant: an empty field parses as 0.
parse_usize_empty_is_zero(f) ==
    IF f = <<>> THEN [ok |-> TRUE, value |-> 0]
    ELSE IF Len(f) = 1 /\ f[1] \in {"+", "-"} THEN [ok |-> FALSE, value |-> 0]
    ELSE IF f[1] = "+" THEN parse_digits(Tail(f), 0)
    ELSE parse_digits(f, 0)

\* value_str.parse::<usize>(): empty is an error, a lone sign is an error, a
\* leading '+' is accepted, '-' is an invalid digit of an unsigned type.
parse_usize(f) ==
    IF f = <<>> THEN [ok |-> FALSE, value |-> 0]
    ELSE IF Len(f) = 1 /\ f[1] \in {"+", "-"} THEN [ok |-> FALSE, value |-> 0]
    ELSE IF f[1] = "+" THEN parse_digits(Tail(f), 0)
    ELSE parse_digits(f, 0)

\* The loop of IntCodeProgram::from_str over the enumerated fields, from the
\* field of index register on: [kind, prog], kind "ok", "err" or "panic".
RECURSIVE from_str_loop(_, _, _)
from_str_loop(p, fields, register) ==
    IF register >= Len(fields) THEN [kind |-> "ok", prog |-> p]
    ELSE IF ~parse_usize(fields[register + 1]).ok THEN [kind |-> "err", prog |-> p]
    ELSE IF register >= INTCODE_MEMORY_SIZE
    THEN [kind |-> "panic", prog |-> [p EXCEPT !.panicked = TRUE, !.cause = "index"]]
    ELSE from_str_loop(
            [p EXCEPT !.registers =
                Store(p.registers, register, parse_usize(fields[register + 1]).value)],
            fields, register + 1)

\* Mutant: the text is split without being trimmed first.
from_str_untrimmed(s) == from_str_loop(new, split(s), 0)

\* impl FromStr for IntCodeProgram
from_str(s) == from_str_loop(new, split(trim(s)), 0)

\* The loop of Memory::from_str: [kind, mem].
RECURSIVE Memory_from_str_loop(_, _, _)
Memory_from_str_loop(regs, fields, ix) ==
    IF ix >= Len(fields) THEN [kind |-> "ok", mem |-> regs]
    ELSE IF ~parse_usize(fields[ix + 1]).ok THEN [kind |-> "err", mem |-> regs]
    ELSE IF ix >= MEMORY_SIZE THEN [kind |-> "panic", mem |-> regs]
    ELSE Memory_from_str_loop(
            Store(regs, ix, parse_usize(fields[ix + 1]).value), fields, ix + 1)

\* impl FromStr for Memory
Memory_from_str(s) ==
    Memory_from_str_loop(Zeros(MEMORY_SIZE), split(trim(s)), 0)

\* What part_one returned: not called yet, a panic, None or Some(value).
NotCalled == [called |-> FALSE, panic |-> FALSE, some |-> FALSE, value |-> 0]

Returned(opt) == [called |-> TRUE, panic |-> FALSE, some |-> opt.some, value |-> opt.value]

Unwound == [called |-> TRUE, panic |-> TRUE, some |-> FALSE, value |-> 0]

\* usize -> u32: try_into().unwrap_or(0)
try_into_u32_or_0(x) == IF x <= U32Max THEN x ELSE 0

\* part_one (bin/02.rs)
part_one(s) ==
    LET r == from_str(s)
        final == run([r.prog EXCEPT !.registers = Store(Store(r.prog.registers, 1, 12), 2, 2)])
    IN  IF r.kind = "panic" THEN Unwound
        ELSE IF r.kind = "ok"
        THEN IF final.panicked THEN Unwound
             ELSE Returned(Some(try_into_u32_or_0(read_register(final.registers, 0))))
        ELSE Returned(None)

\* part_two (bin/02.rs): the input is not read
part_two(s) == Returned(None)

\* ------------------------------------------------------------ construction

\* The register array after the values have been stored at 0, 1, 2, ... into
\* an array of `size` zeros (Memory::from_str, example_memory).
Load(values, size) ==
    [i \in 1..size |-> IF i <= Len(values) THEN values[i] ELSE 0]

\* IntCodeProgram::new followed by `program.registers[ix] = value` for each
\* value in order (from_str, first_test_program); storing at an index at or
\* beyond INTCODE_MEMORY_SIZE panics.
IntCodeProgram_of(values) ==
    IF Len(values) > INTCODE_MEMORY_SIZE
    THEN [new EXCEPT !.panicked = TRUE, !.cause = "index"]
    ELSE [new EXCEPT !.registers =
              [i \in 1..INTCODE_MEMORY_SIZE |->
                  IF i <= Len(values) THEN values[i] ELSE new.registers[i]]]

\* ------------------------------------------------------------ programs

\* first_test_program (bin/02.rs tests)
first_test_program == <<1, 9, 10, 3, 2, 3, 11, 0, 99, 30, 40, 50>>

\* example_memory (intcode/mod.rs tests)
example_memory == <<1, 2, 4, 0, 2, 1, 3, 3, 99>>

\* Operand addresses of the first instruction of a short program: the opcode,
\* an operand, the data behind the instruction, and the end of either memory.
SrcAddrs == {0, 1, 4, MEMORY_SIZE, MEMORY_SIZE + 1}

DstAddrs == {0, 3, 4, INTCODE_MEMORY_SIZE - 1, INTCODE_MEMORY_SIZE,
             MEMORY_SIZE - 1, MEMORY_SIZE}

TailVals == {0, 2, 99, UsizeMax}

\* One Add or Multiply followed by TailLen data fields.
ShortPrograms ==
    { <<op, a, b, d>> \o t :
        op \in {1, 2}, a \in SrcAddrs, b \in SrcAddrs, d \in DstAddrs,
        t \in [1..TailLen -> TailVals] }

\* Programs that halt at once, on the canonical 99 or on another opcode.
HaltPrograms == { <<99>>, <<0>>, <<3, 0, 0, 0>>, <<UsizeMax>> }

\* The first n fields of the endless repetition of one instruction.
Fill(ins, n) == [i \in 1..n |-> ins[((i - 1) % 4) + 1]]

\* Programs that fill a whole memory with instructions, so that the position
\* runs to the end of the memory.
LongPrograms ==
    { Fill(ins, n) : ins \in { <<1, 1, 1, 3>>, <<2, 0, 0, 0>> },
                     n \in {INTCODE_MEMORY_SIZE, MEMORY_SIZE} }

Programs ==
    ShortPrograms \cup HaltPrograms \cup LongPrograms
        \cup {first_test_program, example_memory}

\* ------------------------------------------------------------ state machine

\* The IntCodeProgram as a record, and the locals of Memory::run as a record.
prog == [registers |-> registers, position |-> position, terminated |-> terminated,
         panicked |-> panicked, cause |-> cause, executed |-> executed]

locals == [mem |-> mem, pos |-> pos, pc |-> vpc, cause |-> vcause,
           executed |-> vexecuted]

\* No `mem + instruction` has been evaluated yet.
NoSum == [ins |-> Halt, panic |-> FALSE, result |-> <<>>]

\* The fuel functions of bin/01.rs have no part in the Intcode machines.
Day1Idle == mass = 0 /\ fuel = None /\ fuel_recursive = None

SetProg(p) ==
    /\ registers' = p.registers
    /\ position' = p.position
    /\ terminated' = p.terminated
    /\ panicked' = p.panicked
    /\ cause' = p.cause
    /\ executed' = p.executed

SetLocals(v) ==
    /\ mem' = v.mem
    /\ pos' = v.pos
    /\ vpc' = v.pc
    /\ vcause' = v.cause
    /\ vexecuted' = v.executed

\* Both machines constructed from the fields of one program; the position of
\* the IntCodeProgram is 0 after construction, and a test may set it
\* (`program.position = 4`) before it steps.
InitWith(progs, positions) ==
    /\ input = <<>>
    /\ parsed = "ok"
    /\ vparsed = "ok"
    /\ answer = NotCalled
    /\ answer2 = NotCalled
    /\ overflow_checks \in BOOLEAN
    /\ program \in progs
    /\ \E p \in positions :
          LET c == IntCodeProgram_of(program)
          IN  /\ registers = c.registers
              /\ position = IF c.panicked THEN 0 ELSE p
              /\ terminated = c.terminated
              /\ panicked = c.panicked
              /\ cause = c.cause
              /\ executed = c.executed
    /\ receiver = Load(program, MEMORY_SIZE)
    /\ mem = receiver
    /\ pos = 0
    /\ vpc = "loop"
    /\ vcause = "none"
    /\ vexecuted = 0
    /\ after = NoSum
    /\ last = "init"

Init == InitWith(Programs, {0}) /\ Day1Idle

\* program.step()
StepCall ==
    /\ parsed = "ok"
    /\ ~panicked
    /\ SetProg(step(prog))
    /\ last' = IF terminated THEN "step after halt" ELSE "step"
    /\ UNCHANGED <<parseVars, overflow_checks, program, day1Vars, memVars>>

\* program.run()
RunCall ==
    /\ parsed = "ok"
    /\ ~panicked
    /\ SetProg(run(prog))
    /\ last' = "run"
    /\ UNCHANGED <<parseVars, overflow_checks, program, day1Vars, memVars>>

\* One iteration of the loop of Memory::run.
MemoryRunIter ==
    /\ vparsed = "ok"
    /\ vpc = "loop"
    /\ SetLocals(Memory_run_body(locals))
    /\ receiver' = receiver
    /\ after' = after
    /\ last' = "Memory_run"
    /\ UNCHANGED <<parseVars, overflow_checks, program, day1Vars, progVars>>

Next == StepCall \/ RunCall \/ MemoryRunIter

Spec == Init /\ [][Next]_vars

\* Single steps from a position set by the caller, as the tests of bin/02.rs do.
StartPositions ==
    {0, 1, 4, 5, 8, INTCODE_MEMORY_SIZE - 2, INTCODE_MEMORY_SIZE - 1,
     INTCODE_MEMORY_SIZE, INTCODE_MEMORY_SIZE + 1, UsizeMax}

StepPrograms ==
    { q \in Programs : q[1] \in {1, 99} /\ (Len(q) = 4 + TailLen => q[2] \in {0, 4}) }

InitStep == InitWith(StepPrograms, StartPositions) /\ Day1Idle

NextStep == StepCall \/ RunCall

SpecStep == InitStep /\ [][NextStep]_vars

\* ------------------------------------------------------------ parsing a text

Alphabet == {"0", "1", "9", ",", "+", " ", "x"}

Texts == UNION { [1..n -> Alphabet] : n \in 0..MaxText }

\* Nothing has been constructed yet; the text is about to be parsed.
InitParse ==
    /\ input \in Texts
    /\ parsed = "none"
    /\ vparsed = "none"
    /\ answer = NotCalled
    /\ answer2 = NotCalled
    /\ overflow_checks \in BOOLEAN
    /\ program = <<>>
    /\ registers = new.registers
    /\ position = new.position
    /\ terminated = new.terminated
    /\ panicked = new.panicked
    /\ cause = new.cause
    /\ executed = new.executed
    /\ receiver = Zeros(MEMORY_SIZE)
    /\ mem = receiver
    /\ pos = 0
    /\ vpc = "loop"
    /\ vcause = "none"
    /\ vexecuted = 0
    /\ after = NoSum
    /\ last = "init"
    /\ Day1Idle

\* input.parse::<IntCodeProgram>()
FromStr ==
    /\ parsed = "none"
    /\ parsed' = from_str(input).kind
    /\ SetProg(from_str(input).prog)
    /\ UNCHANGED <<input, vparsed, answer, answer2, overflow_checks, program, day1Vars, memVars, last>>

\* input.parse::<Memory>()
MemoryFromStr ==
    /\ vparsed = "none"
    /\ vparsed' = Memory_from_str(input).kind
    /\ receiver' = Memory_from_str(input).mem
    /\ mem' = receiver'
    /\ UNCHANGED <<input, parsed, answer, answer2, overflow_checks, program, day1Vars, progVars,
                   pos, vpc, vcause, vexecuted, after, last>>

\* part_one(input)
PartOne ==
    /\ ~answer.called
    /\ answer' = part_one(input)
    /\ UNCHANGED <<input, parsed, vparsed, answer2, overflow_checks, program, day1Vars, progVars,
                   memVars, last>>

\* part_two(input); the runner calls it after part_one has returned.
PartTwo ==
    /\ answer.called
    /\ ~answer.panic
    /\ ~answer2.called
    /\ answer2' = part_two(input)
    /\ UNCHANGED <<input, parsed, vparsed, answer, overflow_checks, program, day1Vars, progVars,
                   memVars, last>>

NextParse == FromStr \/ MemoryFromStr \/ PartOne

SpecParse == InitParse /\ [][NextParse]_vars

\* The runner of the day: it hands the text to part_one, then to part_two.
NextParts == PartOne \/ PartTwo

SpecParts == InitParse /\ [][NextParts]_vars

\* ------------------------------------------------------------ reference semantics

\* The value an address holds: the stored value, and 0 at or beyond the capacity.
HeldAt(m, addr) == IF addr < Len(m) THEN m[addr + 1] ELSE 0

\* The instruction the memory m encodes at address addr.
DecodeRef(m, addr) ==
    IF HeldAt(m, addr) = 1
    THEN Add(HeldAt(m, addr + 1), HeldAt(m, addr + 2), HeldAt(m, addr + 3))
    ELSE IF HeldAt(m, addr) = 2
    THEN Multiply(HeldAt(m, addr + 1), HeldAt(m, addr + 2), HeldAt(m, addr + 3))
    ELSE Halt

\* The mathematical result of an Add or Multiply on the memory m.
ResultRef(m, ins) ==
    IF ins.op = "Add" THEN HeldAt(m, ins.a) + HeldAt(m, ins.b)
    ELSE HeldAt(m, ins.a) * HeldAt(m, ins.b)

\* The memory after the k instructions at addr, addr + 4, ... have been
\* executed in turn, each decoded from the memory its predecessors left
\* (registers keep the low UsizeBits bits); <<>> when one of the k is a Halt.
RECURSIVE ExecRef(_, _, _)
ExecRef(m, addr, k) ==
    IF k = 0 THEN m
    ELSE IF DecodeRef(m, addr).op = "Halt" THEN <<>>
    ELSE ExecRef([m EXCEPT ![DecodeRef(m, addr).d + 1] =
                      ResultRef(m, DecodeRef(m, addr)) % (UsizeMax + 1)],
                 addr + 4, k - 1)

IsStep == last' \in {"step", "step after halt"}

\* ------------------------------------------------------------ claims

\* C1: at a position whose opcode is 1 (2), with a, b, d the three operands and
\* d within capacity, one step stores at d the sum (product) of the values a
\* and b held before the step, advances the position by 4 and does not
\* terminate; likewise one iteration of Memory::run. (Fails: the sum or product
\* may not fit a register, and Memory panics on the operand address 200.)
C1_StepStoresSumOrProduct ==
    [][ /\ (IsStep /\ DecodeRef(registers, position).op # "Halt"
                   /\ DecodeRef(registers, position).d < INTCODE_MEMORY_SIZE)
           => /\ ~panicked'
              /\ HeldAt(registers', DecodeRef(registers, position).d)
                    = ResultRef(registers, DecodeRef(registers, position))
              /\ position' = position + 4
              /\ ~terminated'
        /\ (last' = "Memory_run" /\ vpc = "loop" /\ pos < MEMORY_SIZE
                   /\ DecodeRef(mem, pos).op # "Halt"
                   /\ DecodeRef(mem, pos).d < MEMORY_SIZE)
           => /\ vpc' = "loop"
              /\ HeldAt(mem', DecodeRef(mem, pos).d) = ResultRef(mem, DecodeRef(mem, pos))
              /\ pos' = pos + 4 ]_vars

\* C2: a step at a position whose opcode is neither 1 nor 2 leaves every
\* register and the position unchanged and sets terminated.
C2_HaltStepFrame ==
    [][ (IsStep /\ HeldAt(registers, position) \notin {1, 2})
        => /\ registers' = registers
           /\ position' = position
           /\ terminated'
           /\ ~panicked' ]_vars

\* A step has halted a program at an opcode other than 99, at a position set
\* by the caller.
C2_Witness ==
    /\ last = "step"
    /\ terminated
    /\ executed = 0
    /\ position \in {5, INTCODE_MEMORY_SIZE + 1}
    /\ HeldAt(registers, position) # 99

\* C3: once terminated is true it stays true, and no later step (or any other
\* operation) changes a register or the position.
C3_HaltedIsTerminal ==
    [][ terminated => (terminated' /\ registers' = registers /\ position' = position
                       /\ ~panicked') ]_vars

\* A step has been taken on a program that had already terminated after
\* executing instructions.
C3_Witness ==
    /\ last = "step after halt"
    /\ terminated
    /\ executed > 0

\* Addresses read in the claims about read and decode: every address of the
\* larger memory, the addresses just beyond it, and the largest usize.
ReadAddrs == 0..(MEMORY_SIZE + 4) \cup {UsizeMax - 3, UsizeMax}

\* C4: read(address) returns 0 at or beyond the capacity (capacity included)
\* and the stored value below it, and never aborts, in both implementations.
\* (Fails: Memory::read_register panics at address 200.)
C4_ReadDefaultsToZero ==
    \A addr \in ReadAddrs :
        /\ read_register(registers, addr)
              = (IF addr >= INTCODE_MEMORY_SIZE THEN 0 ELSE registers[addr + 1])
        /\ Memory_read_register(mem, addr)
              = Ok(IF addr >= MEMORY_SIZE THEN 0 ELSE mem[addr + 1])

\* C5: decode(address) is total: opcode 1 yields Add and opcode 2 Multiply of
\* the three operands (0 when read at or beyond capacity), every other opcode
\* Halt, and decoding never aborts, in both implementations. (Fails: Memory
\* panics when the opcode or an operand lies at address 200.)
C5_DecodeTotal ==
    \A addr \in ReadAddrs :
        /\ read_instruction(registers, addr) = DecodeRef(registers, addr)
        /\ Memory_read_instruction(mem, addr)
              = [panic |-> FALSE, value |-> DecodeRef(mem, addr)]

\* C6: decoding at or beyond capacity yields Halt, so a run whose position
\* reaches the end of memory halts there and does not abort. (Fails:
\* Memory::run panics when its position reaches 200.)
C6_DecodeBeyondCapacityHalts ==
    /\ \A addr \in {a \in ReadAddrs : a >= INTCODE_MEMORY_SIZE} :
          read_instruction(registers, addr) = Halt
    /\ (position >= INTCODE_MEMORY_SIZE /\ last \in {"step", "run"}) => terminated
    /\ \A addr \in {a \in ReadAddrs : a >= MEMORY_SIZE} :
          Memory_read_instruction(mem, addr) = [panic |-> FALSE, value |-> Halt]
    /\ pos >= MEMORY_SIZE => ~(vpc = "panicked" /\ vcause = "decode")

\* Memory::run has executed the 50 instructions that fill its memory and has
\* panicked decoding at position 200.
C6_RunAbortsAtEnd ==
    /\ vpc = "panicked"
    /\ vcause = "decode"
    /\ pos = MEMORY_SIZE
    /\ vexecuted * 4 = MEMORY_SIZE

\* C7: run is the iteration of step from position 0 to the first Halt: the
\* memory is the result of executing the instructions at 0, 4, 8, ... in turn,
\* each decoded from the memory as its predecessors left it, none of them a
\* Halt; run stops at the first position that decodes as Halt.
C7_RunIsIteratedStep ==
    /\ ~panicked =>
          /\ registers = ExecRef(Load(program, INTCODE_MEMORY_SIZE), 0, executed)
          /\ position = 4 * executed
          /\ terminated => DecodeRef(registers, position) = Halt
          /\ last = "run" => terminated
    /\ vpc # "panicked" =>
          /\ mem = ExecRef(Load(program, MEMORY_SIZE), 0, vexecuted)
          /\ pos = 4 * vexecuted
          /\ vpc = "returned" => DecodeRef(mem, pos) = Halt

\* Both runs have ended after two instructions, the second of which the
\* initial memory does not hold: the first instruction wrote its opcode.
C7_Witness ==
    /\ last = "run"
    /\ terminated
    /\ executed = 2
    /\ vpc = "returned"
    /\ vexecuted = 2
    /\ DecodeRef(Load(program, MEMORY_SIZE), 4) = Halt

\* ceil(n / 4)
CeilDiv4(n) == (n + 3) \div 4

\* C8: run terminates whenever the executed destination addresses are within
\* capacity, after at most ceil(capacity / 4) instructions: it never ends in
\* a panic other than the out-of-capacity write. (Fails: Memory::run panics on
\* reading address 200, and both runs panic on overflow in a build that
\* checks it.)
C8_RunTerminates ==
    /\ panicked => cause = "index"
    /\ executed <= CeilDiv4(INTCODE_MEMORY_SIZE)
    /\ last = "run" => (terminated \/ panicked)
    /\ vpc = "panicked" => vcause = "index"
    /\ vexecuted <= CeilDiv4(MEMORY_SIZE)

\* ------------------------------------------------------------ reference reading of a text

\* The text without its leading and trailing blanks.
TrimRef(t) ==
    LET inked == {i \in 1..Len(t) : t[i] # " "}
    IN  IF inked = {} THEN <<>>
        ELSE SubSeq(t, CHOOSE i \in inked : \A j \in inked : i <= j,
                       CHOOSE i \in inked : \A j \in inked : i >= j)

\* The places that bound the fields of t: its commas and its two ends.
FieldBounds(t) == {0, Len(t) + 1} \cup {i \in 1..Len(t) : t[i] = ","}

NumFieldsRef(t) == Cardinality(FieldBounds(t)) - 1

\* The j-th field of t (j = 1 is the first): the text between the j-th bound
\* and the next.
FieldRef(t, j) ==
    LET b == CHOOSE x \in FieldBounds(t) :
                 Cardinality({c \in FieldBounds(t) : c < x}) = j - 1
        e == CHOOSE x \in FieldBounds(t) :
                 x > b /\ \A c \in FieldBounds(t) : c > b => x <= c
    IN  SubSeq(t, b + 1, e - 1)

\* The digits of a field: the field without its optional plus sign.
DigitsOf(f) == IF f # <<>> /\ f[1] = "+" THEN Tail(f) ELSE f

\* The number a string of decimal digits denotes.
RECURSIVE ValueRef(_)
ValueRef(ds) ==
    IF ds = <<>> THEN 0
    ELSE to_digit(Head(ds)) * 10 ^ (Len(ds) - 1) + ValueRef(Tail(ds))

\* A field is a valid non-negative integer: one or more decimal digits, after
\* an optional plus sign, denoting a number a register can hold.
ValidField(f) ==
    /\ DigitsOf(f) # <<>>
    /\ \A i \in 1..Len(DigitsOf(f)) : IsDigit(DigitsOf(f)[i])
    /\ ValueRef(DigitsOf(f)) <= UsizeMax

AllFieldsValid(t) == \A j \in 1..NumFieldsRef(t) : ValidField(FieldRef(t, j))

\* C9: parsing a text of n valid fields (1 <= n <= capacity) yields a
\* program whose registers 0..n-1 hold the fields in order, whose registers
\* from n on hold 0, whose position is 0 and which has not terminated.
C9_ParseStoresFields ==
    (parsed # "none" /\ AllFieldsValid(TrimRef(input)))
    => /\ parsed = "ok"
       /\ ~panicked
       /\ position = 0
       /\ ~terminated
       /\ \A i \in 0..(INTCODE_MEMORY_SIZE - 1) :
             registers[i + 1] = IF i < NumFieldsRef(TrimRef(input))
                            THEN ValueRef(DigitsOf(FieldRef(TrimRef(input), i + 1)))
                            ELSE 0

\* A text with a blank around its two fields has been parsed.
C9_Witness ==
    /\ parsed = "ok"
    /\ input # TrimRef(input)
    /\ NumFieldsRef(TrimRef(input)) = 2
    /\ HeldAt(registers, 0) = 1
    /\ HeldAt(registers, 1) = 9

\* C10: parsing a text (of at most capacity fields) with a field that is not
\* a valid non-negative integer returns the ParseError, in both
\* implementations, and never panics; part_one returns None on it.
C10_InvalidFieldIsParseError ==
    ~AllFieldsValid(TrimRef(input))
    => /\ parsed \in {"none", "err"}
       /\ vparsed \in {"none", "err"}
       /\ answer.called => (~answer.panic /\ ~answer.some)

\* All three have rejected a text whose first field is valid and whose second
\* is not.
C10_Witness ==
    /\ parsed = "err"
    /\ vparsed = "err"
    /\ answer = Returned(None)
    /\ NumFieldsRef(TrimRef(input)) = 2
    /\ ValidField(FieldRef(TrimRef(input), 1))
    /\ ~ValidField(FieldRef(TrimRef(input), 2))


\* ------------------------------------------------------- part one, part two

\* What the program of text s holds when it has run with noun and verb
\* written to addresses 1 and 2.
Trial(s, noun, verb) ==
    run([from_str(s).prog EXCEPT
            !.registers = Store(Store(from_str(s).prog.registers, 1, noun), 2, verb)])

\* C11: part_one of a parseable program writes 12 to address 1 and 2 to
\* address 2, runs the program to halt and returns exactly the integer that
\* address 0 holds after the halt, whatever that integer is, also when it
\* does not fit in 32 bits.
C11_PartOneReturnsAddressZero ==
    (answer.called /\ from_str(input).kind = "ok" /\ ~Trial(input, 12, 2).panicked)
        => answer = Returned(Some(At(Trial(input, 12, 2).registers, 0)))

\* part_one has returned a number that is not the one address 0 holds.
C11_ReturnsZeroForWideValue ==
    /\ answer.called
    /\ from_str(input).kind = "ok"
    /\ Trial(input, 12, 2).terminated
    /\ At(Trial(input, 12, 2).registers, 0) > U32Max
    /\ answer = Returned(Some(0))

\* The value the search looks for. The puzzle's 19690720 does not fit the
\* model's usize; the model searches for a value its programs can produce.
SearchTarget == 4

NounVerb == 0..100

Matches(s, noun, verb) ==
    /\ Trial(s, noun, verb).terminated
    /\ At(Trial(s, noun, verb).registers, 0) = SearchTarget

\* noun outermost, verb innermost: the first matching pair is the one with
\* the least noun and, for that noun, the least verb.
IsFirstMatch(s, noun, verb) ==
    /\ Matches(s, noun, verb)
    /\ \A v \in 0..(verb - 1) : ~Matches(s, noun, v)
    /\ \A n \in 0..(noun - 1) : \A v \in NounVerb : ~Matches(s, n, v)

\* C12: part two tries noun 0..100 (outer) and verb 0..100 (inner), each on a
\* fresh copy of the program, and returns 100 * noun + verb of the first
\* pair whose run leaves the target at address 0; it returns no result only
\* when none of the 101 x 101 pairs matches.
C12_SearchFindsFirstPair ==
    (answer2.called /\ from_str(input).kind = "ok")
        => /\ ~answer2.panic
           /\ answer2.some
                => \E noun \in NounVerb : \E verb \in NounVerb :
                      /\ IsFirstMatch(input, noun, verb)
                      /\ answer2.value = 100 * noun + verb
           /\ ~answer2.some
                => \A noun \in NounVerb : \A verb \in NounVerb :
                      ~Matches(input, noun, verb)

\* part_two has returned no result for a program that a pair does match.
C12_NoResultThoughPairMatches ==
    /\ answer2 = Returned(None)
    /\ from_str(input).kind = "ok"
    /\ IsFirstMatch(input, 2, 2)


\* ------------------------------------------------------------ determinism

\* A second run of the same initial memory, from construction to its end.
RunAgain == run(IntCodeProgram_of(program))

MemoryRunAgain == Memory_run(Load(program, MEMORY_SIZE))

IsIter == last' = "Memory_run" /\ vpc = "loop"

\* The register array now differs from the one before at address d at most.
SameExceptAt(now, before, d) ==
    IF d < Len(before)
    THEN now = [before EXCEPT ![d + 1] = now[d + 1]]
    ELSE now = before

\* C14: a step that executes an Add or a Multiply changes no register other
\* than the destination of the instruction: every other address holds after
\* the step what it held before, in the IntCodeProgram and in the Memory.
C14_OnlyDestinationChanges ==
    [][/\ (IsStep /\ DecodeRef(registers, position) # Halt) =>
              SameExceptAt(registers', registers, DecodeRef(registers, position).d)
       /\ (IsIter /\ DecodeRef(mem, pos) # Halt) =>
              SameExceptAt(mem', mem, DecodeRef(mem, pos).d)
      ]_vars

\* Each machine has executed an instruction as a single step, and the step
\* of the IntCodeProgram, the last to act, changed its destination.
C14_Witness ==
    /\ last = "step"
    /\ executed >= 1
    /\ registers # Load(program, INTCODE_MEMORY_SIZE)
    /\ vexecuted >= 1
    /\ mem # Load(program, MEMORY_SIZE)


\* C15: an Add or a Multiply whose destination lies at or beyond the
\* capacity is a fatal abort: the step panics, it stores at no other
\* address, it does not skip the write and go on, and the aborted step has
\* modified no register (nor the position of the IntCodeProgram).
C15_StoreBeyondCapacityAborts ==
    [][/\ (/\ IsStep
           /\ DecodeRef(registers, position) # Halt
           /\ DecodeRef(registers, position).d >= INTCODE_MEMORY_SIZE) =>
              /\ panicked'
              /\ registers' = registers
              /\ position' = position
              /\ terminated' = terminated
              /\ executed' = executed
       /\ (/\ IsIter
           /\ DecodeRef(mem, pos) # Halt
           /\ DecodeRef(mem, pos).d >= MEMORY_SIZE) =>
              /\ vpc' = "panicked"
              /\ mem' = mem
              /\ vexecuted' = vexecuted
      ]_vars

\* Both machines have aborted on the store of their first instruction; the
\* memories are as loaded.
C15_Witness ==
    /\ last = "step"
    /\ panicked
    /\ cause = "index"
    /\ registers = Load(program, INTCODE_MEMORY_SIZE)
    /\ vpc = "panicked"
    /\ vcause = "index"
    /\ mem = Load(program, MEMORY_SIZE)
    /\ DecodeRef(mem, 0).d >= MEMORY_SIZE


\* ------------------------------------------------- value semantics of Memory

\* The instructions added to a memory: the two of test_execute_instruction_add,
\* a Multiply into the last register, a store beyond the capacity, a Halt.
AddInstructions ==
    {Add(0, 2, 0), Add(4, 8, 1), Multiply(1, 1, MEMORY_SIZE - 1),
     Add(0, 0, MEMORY_SIZE), Halt}

\* let after = mem + instruction, with mem the memory run is called on.
AddCall ==
    /\ vparsed = "ok"
    /\ \E instruction \in AddInstructions :
          /\ after' = [ins |-> instruction,
                       panic |-> Memory_add(receiver, instruction).panic,
                       result |-> Memory_add(receiver, instruction).value]
          /\ receiver' = Memory_add_self(receiver, instruction)
    /\ last' = "add"
    /\ UNCHANGED <<parseVars, overflow_checks, program, day1Vars, progVars,
                   mem, pos, vpc, vcause, vexecuted>>

InitAdd == InitWith(StepPrograms, {0}) /\ Day1Idle

NextAdd == AddCall \/ MemoryRunIter

SpecAdd == InitAdd /\ [][NextAdd]_vars

\* The memory m with the mathematical result of ins, cut to the width of a
\* register, at the destination of ins.
SumRef(m, ins) ==
    [m EXCEPT ![ins.d + 1] = ResultRef(m, ins) % (UsizeMax + 1)]

\* C16: Memory::run and `memory + instruction` never modify the memory they
\* are applied to: it holds what it was constructed with throughout, the
\* result is a separate memory, and every sum evaluated against it, after
\* whatever sums and runs came before, is computed from the original contents.
C16_ReceiverIsNeverModified ==
    /\ receiver = Load(program, MEMORY_SIZE)
    /\ (after.ins # Halt /\ ~after.panic) =>
          after.result = SumRef(Load(program, MEMORY_SIZE), after.ins)
    /\ (after # NoSum /\ after.ins = Halt) =>
          after.result = Load(program, MEMORY_SIZE)

\* run has returned a memory and a sum has been evaluated, both different
\* from the memory they were applied to.
C16_Witness ==
    /\ vpc = "returned"
    /\ mem # receiver
    /\ after.ins = Add(4, 8, 1)
    /\ ~after.panic
    /\ after.result # receiver
    /\ program = example_memory

\* ------------------------------------------------------------ bin/01.rs

\* u32::saturating_sub
saturating_sub(x, y) == IF x >= y THEN x - y ELSE 0

\* Mutant: the subtraction is not clamped at 0.
required_fuel_unclamped(m) == (m \div 3) - 2

\* required_fuel. No intermediate value exceeds the argument, so the width of
\* u32 plays no part in it.
required_fuel(m) == saturating_sub(m \div 3, 2)

RECURSIVE required_fuel_recursive(_)
required_fuel_recursive(m) ==
    LET f == saturating_sub(m \div 3, 2)
    IN  IF f = 0 THEN 0 ELSE f + required_fuel_recursive(f)

\* The masses of the tests of bin/01.rs.
TestMasses == {12, 14, 1969, 100756}

Masses == 0..MaxMass \cup TestMasses

InitFuel ==
    /\ InitWith({<<99>>}, {0})
    /\ mass \in Masses
    /\ fuel = None
    /\ fuel_recursive = None

\* required_fuel(mass)
RequiredFuel ==
    /\ ~fuel.some
    /\ fuel' = Some(required_fuel(mass))
    /\ UNCHANGED <<parseVars, overflow_checks, program, progVars, memVars, last,
                   mass, fuel_recursive>>

\* required_fuel_recursive(mass)
RequiredFuelRecursive ==
    /\ ~fuel_recursive.some
    /\ fuel_recursive' = Some(required_fuel_recursive(mass))
    /\ UNCHANGED <<parseVars, overflow_checks, program, progVars, memVars, last,
                   mass, fuel>>

NextFuel == RequiredFuel \/ RequiredFuelRecursive

SpecFuel == InitFuel /\ [][NextFuel]_vars

\* floor(m / 3) - 2, and 0 where that is negative.
FuelRef(m) == IF (m \div 3) - 2 > 0 THEN (m \div 3) - 2 ELSE 0

\* f1 + f2 + ... of the chain f1, f2 = FuelRef(f1), ... up to the first 0.
RECURSIVE ChainSumRef(_)
ChainSumRef(f) == IF f = 0 THEN 0 ELSE f + ChainSumRef(FuelRef(f))

\* C20: required_fuel(m) is floor(m / 3) - 2 clamped at 0, for every m;
\* required_fuel_recursive(m) terminates and is the sum f1 + f2 + ... of
\* f1 = required_fuel(m), f2 = required_fuel(f1), ... up to the first 0.
C20_FuelAndFuelOfFuel ==
    /\ fuel.some => fuel.value = FuelRef(mass)
    /\ fuel_recursive.some =>
          /\ fuel_recursive.value = ChainSumRef(FuelRef(mass))
          /\ fuel_recursive.value <= mass

\* Both functions have returned for the mass 1969: 654 and 654 + 216 + 70 +
\* 21 + 5 = 966.
C20_Witness ==
    /\ mass = 1969
    /\ fuel = Some(654)
    /\ fuel_recursive = Some(966)


\* ------------------------------------------------------------ overflow

\* C17: when the sum or the product of an Add or a Multiply does not fit a
\* register, the step does not store a silently wrapped value: it stores
\* the saturated value or ends in a defined failure (here: the panic).
C17_OverflowIsNotWrapped ==
    [][/\ (/\ IsStep
           /\ DecodeRef(registers, position) # Halt
           /\ ResultRef(registers, DecodeRef(registers, position)) > UsizeMax) =>
              \/ panicked'
              \/ At(registers', DecodeRef(registers, position).d) = UsizeMax
       /\ (/\ IsIter
           /\ DecodeRef(mem, pos) # Halt
           /\ ResultRef(mem, DecodeRef(mem, pos)) > UsizeMax) =>
              \/ vpc' = "panicked"
              \/ At(mem', DecodeRef(mem, pos).d) = UsizeMax
      ]_vars

\* A release build has stepped once: the result of the first instruction
\* does not fit a register, and the destination holds its low bits.
C17_WrappedValueStored ==
    /\ ~overflow_checks
    /\ last = "step"
    /\ ~panicked
    /\ executed = 1
    /\ ResultRef(Load(program, INTCODE_MEMORY_SIZE),
                 DecodeRef(Load(program, INTCODE_MEMORY_SIZE), 0)) > UsizeMax
    /\ registers = ExecRef(Load(program, INTCODE_MEMORY_SIZE), 0, 1)
    /\ At(registers, DecodeRef(Load(program, INTCODE_MEMORY_SIZE), 0).d) # UsizeMax


\* ------------------------------------------------- the two implementations

\* Every operand and destination address of the instructions that the run of
\* memory m reaches from addr on is below the capacity of the IntCodeProgram.
RECURSIVE AddrsBelowRef(_, _)
AddrsBelowRef(m, addr) ==
    LET ins == DecodeRef(m, addr)
    IN  \/ ins = Halt
        \/ /\ ins.a < INTCODE_MEMORY_SIZE
           /\ ins.b < INTCODE_MEMORY_SIZE
           /\ ins.d < INTCODE_MEMORY_SIZE
           /\ AddrsBelowRef(SumRef(m, ins), addr + 4)

\* Neither run has aborted, and where both have halted they have halted at
\* the same position with the same values at addresses 0..129.
BothHaltAlike ==
    /\ ~panicked
    /\ vpc # "panicked"
    /\ (terminated /\ vpc = "returned") =>
          /\ position = pos
          /\ registers = SubSeq(mem, 1, INTCODE_MEMORY_SIZE)

\* C18: for every program of at most 130 fields whose run reaches only
\* operand and destination addresses below 130, IntCodeProgram::run and
\* Memory::run both halt (neither aborts), and they halt at the same
\* position with the same values at addresses 0..129. (Stated as: a program
\* of at most 130 fields whose runs do not halt alike reaches an address
\* that is not below 130.)
C18_ImplementationsAgree ==
    Len(program) <= INTCODE_MEMORY_SIZE =>
        \/ BothHaltAlike
        \/ ~AddrsBelowRef(Load(program, MEMORY_SIZE), 0)

\* Both runs of such a program have aborted on the same instruction, whose
\* result does not fit a register.
C18_BothAbortOnOverflow ==
    /\ Len(program) <= INTCODE_MEMORY_SIZE
    /\ panicked
    /\ cause = "overflow"
    /\ vpc = "panicked"
    /\ vcause = "overflow"
    /\ executed = vexecuted
    /\ registers = SubSeq(mem, 1, INTCODE_MEMORY_SIZE)
    /\ AddrsBelowRef(Load(program, MEMORY_SIZE), 0)


\* ------------------------------------------------------------ the position

\* C19: in every state of a run from position 0 of a freshly constructed
\* program, the position is a multiple of 4, is 4 times the number of Add
\* and Multiply instructions executed so far, never decreases, and never
\* exceeds the smallest multiple of 4 at or beyond the capacity (132 for
\* the IntCodeProgram, 200 for Memory::run, whose cursor is dropped when the
\* run aborts).
C19_PositionCountsInstructions ==
    /\ [](/\ position % 4 = 0
          /\ position = 4 * executed
          /\ position <= 4 * CeilDiv4(INTCODE_MEMORY_SIZE)
          /\ pos % 4 = 0
          /\ vpc # "panicked" => pos = 4 * vexecuted
          /\ pos <= 4 * CeilDiv4(MEMORY_SIZE))
    /\ [][position' >= position /\ pos' >= pos]_vars

\* Both runs of a program that fills the 130 registers with instructions
\* have halted at 132, the largest position of the IntCodeProgram, after 33
\* instructions.
C19_Witness ==
    /\ terminated
    /\ position = 4 * CeilDiv4(INTCODE_MEMORY_SIZE)
    /\ executed = CeilDiv4(INTCODE_MEMORY_SIZE)
    /\ vpc = "returned"
    /\ pos = 4 * CeilDiv4(INTCODE_MEMORY_SIZE)
    /\ vexecuted = CeilDiv4(INTCODE_MEMORY_SIZE)

====
